---- MODULE Spec2Model ----
(***************************************************************************)
(* Model of monorepo-ci-tools: src/utils/git.ts (the git query layer) and  *)
(* src/utils/workspaces.ts (the workspace version planner).                *)
(*                                                                         *)
(* Strings are sequences of one-character strings, so that startsWith,     *)
(* includes, replace, split, trim and the semantic-version parser are      *)
(* computed character by character as the code computes them.  The two     *)
(* JavaScript values null and undefined are the one-element sequences      *)
(* Null and Undefined, whose element is not a single character and so can  *)
(* never equal a string of the program.                                    *)
(***************************************************************************)
EXTENDS Integers, Sequences, FiniteSets, TLC

(* ------------------------------------------------------------------ *)
(* Bounds of the model                                                *)
(* ------------------------------------------------------------------ *)
MaxTags == 2
MaxFiles == 3
MaxWs == 2

(* ------------------------------------------------------------------ *)
(* JavaScript values and string primitives                            *)
(* ------------------------------------------------------------------ *)
Null == <<"null">>
Undefined == <<"undefined">>
NoValue == <<"unset">>

Sep == <<"/">>
NL == "\n"
Cwd == <<"/", "r">>

Range(s) == {s[i] : i \in DOMAIN s}

SetToSeqs(S, n) == UNION {[1..k -> S] : k \in 0..n}

IsInjective(s) == \A i, j \in DOMAIN s : s[i] = s[j] => i = j

\* String.prototype.startsWith
StartsWith(s, p) ==
  /\ Len(p) <= Len(s)
  /\ SubSeq(s, 1, Len(p)) = p

\* String.prototype.indexOf, 1-based, 0 when there is no occurrence
IndexOf(s, p) ==
  LET hits == {i \in 1..(Len(s) - Len(p) + 1) : SubSeq(s, i, i + Len(p) - 1) = p}
  IN IF hits = {} THEN 0 ELSE CHOOSE i \in hits : \A j \in hits : i <= j

\* String.prototype.includes
Includes(s, p) == IndexOf(s, p) # 0

\* String.prototype.replace with a string pattern: the first occurrence only
Replace(s, p, r) ==
  LET i == IndexOf(s, p)
  IN IF i = 0 THEN s
     ELSE SubSeq(s, 1, i - 1) \o r \o SubSeq(s, i + Len(p), Len(s))

IsSpace(c) == c \in {" ", NL}

RECURSIVE TrimLeft(_)
TrimLeft(s) == IF s # <<>> /\ IsSpace(Head(s)) THEN TrimLeft(Tail(s)) ELSE s

RECURSIVE TrimRight(_)
TrimRight(s) ==
  IF s # <<>> /\ IsSpace(s[Len(s)]) THEN TrimRight(SubSeq(s, 1, Len(s) - 1)) ELSE s

\* String.prototype.trim
Trim(s) == TrimRight(TrimLeft(s))

\* String.prototype.split on a one-character separator: "" splits to [""]
RECURSIVE Split(_, _)
Split(s, c) ==
  LET hits == {i \in DOMAIN s : s[i] = c}
  IN IF hits = {} THEN <<s>>
     ELSE LET i == CHOOSE k \in hits : \A j \in hits : k <= j
          IN <<SubSeq(s, 1, i - 1)>> \o Split(SubSeq(s, i + 1, Len(s)), c)

\* Array.prototype.join, the text a git command prints for a list of lines
RECURSIVE Join(_, _)
Join(lines, c) ==
  IF lines = <<>> THEN <<>>
  ELSE IF Len(lines) = 1 THEN lines[1]
  ELSE lines[1] \o <<c>> \o Join(Tail(lines), c)

(* ------------------------------------------------------------------ *)
(* semver: parsing, formatting, precedence and inc                     *)
(* Versions with numeric prerelease identifiers are covered; any other *)
(* text is rejected, as semver rejects every text this model feeds it. *)
(* ------------------------------------------------------------------ *)
Digits == <<"0", "1", "2", "3", "4", "5", "6", "7", "8", "9">>

IsDigit(c) == \E d \in DOMAIN Digits : Digits[d] = c

DigitVal(c) == (CHOOSE d \in DOMAIN Digits : Digits[d] = c) - 1

RECURSIVE StrToNum(_)
StrToNum(s) ==
  IF s = <<>> THEN 0
  ELSE 10 * StrToNum(SubSeq(s, 1, Len(s) - 1)) + DigitVal(s[Len(s)])

RECURSIVE NumToStr(_)
NumToStr(n) ==
  IF n < 10 THEN <<Digits[n + 1]>>
  ELSE NumToStr(n \div 10) \o <<Digits[(n % 10) + 1]>>

\* NUMERICIDENTIFIER: 0|[1-9]\d*
IsNumericId(s) ==
  /\ s # <<>>
  /\ \A i \in DOMAIN s : IsDigit(s[i])
  /\ Len(s) > 1 => s[1] # "0"

RECURSIVE MapNum(_)
MapNum(ids) == IF ids = <<>> THEN <<>> ELSE <<StrToNum(Head(ids))>> \o MapNum(Tail(ids))

RECURSIVE MapStr(_)
MapStr(nums) == IF nums = <<>> THEN <<>> ELSE <<NumToStr(Head(nums))>> \o MapStr(Tail(nums))

\* The text before and after the first "-" of a version text
VersionMain(s) ==
  LET dash == IndexOf(s, <<"-">>) IN IF dash = 0 THEN s ELSE SubSeq(s, 1, dash - 1)

VersionPre(s) ==
  LET dash == IndexOf(s, <<"-">>)
  IN IF dash = 0 THEN <<>> ELSE Split(SubSeq(s, dash + 1, Len(s)), ".")

\* The text matches semver's FULL pattern (numeric identifiers)
IsVersion(s) ==
  LET nums == Split(VersionMain(s), ".")
  IN /\ s \notin {Null, Undefined}
     /\ Len(nums) = 3
     /\ \A i \in 1..3 : IsNumericId(nums[i])
     /\ \A i \in DOMAIN VersionPre(s) : IsNumericId(VersionPre(s)[i])

\* new SemVer(version), for a text that IsVersion
ParseVersion(s) ==
  LET nums == Split(VersionMain(s), ".")
  IN [major |-> StrToNum(nums[1]), minor |-> StrToNum(nums[2]),
      patch |-> StrToNum(nums[3]), pre |-> MapNum(VersionPre(s))]

\* SemVer.prototype.format
FormatVersion(v) ==
  NumToStr(v.major) \o <<".">> \o NumToStr(v.minor) \o <<".">> \o NumToStr(v.patch)
    \o (IF v.pre = <<>> THEN <<>> ELSE <<"-">> \o Join(MapStr(v.pre), "."))

ReleaseTypes ==
  {"major", "premajor", "minor", "preminor", "patch", "prepatch", "prerelease"}

\* SemVer.prototype.inc(release), case 'pre'
IncPre(v) ==
  IF v.pre = <<>> THEN [v EXCEPT !.pre = <<0>>]
  ELSE [v EXCEPT !.pre[Len(v.pre)] = @ + 1]

\* SemVer.prototype.inc(release)
IncVersion(v, release) ==
  CASE release = "premajor" ->
         IncPre([major |-> v.major + 1, minor |-> 0, patch |-> 0, pre |-> <<>>])
    [] release = "preminor" ->
         IncPre([major |-> v.major, minor |-> v.minor + 1, patch |-> 0, pre |-> <<>>])
    [] release = "prepatch" ->
         IncPre([major |-> v.major, minor |-> v.minor, patch |-> v.patch + 1, pre |-> <<>>])
    [] release = "prerelease" ->
         IncPre(IF v.pre = <<>> THEN [v EXCEPT !.patch = @ + 1] ELSE v)
    [] release = "major" ->
         [major |-> IF v.minor # 0 \/ v.patch # 0 \/ v.pre = <<>>
                    THEN v.major + 1 ELSE v.major,
          minor |-> 0, patch |-> 0, pre |-> <<>>]
    [] release = "minor" ->
         [major |-> v.major,
          minor |-> IF v.patch # 0 \/ v.pre = <<>> THEN v.minor + 1 ELSE v.minor,
          patch |-> 0, pre |-> <<>>]
    [] release = "patch" ->
         [major |-> v.major, minor |-> v.minor,
          patch |-> IF v.pre = <<>> THEN v.patch + 1 ELSE v.patch,
          pre |-> <<>>]

\* semver.inc(version, release): null for a text that is no version or a
\* release that is no release type
SemverInc(version, release) ==
  IF ~IsVersion(version) \/ release \notin ReleaseTypes THEN Null
  ELSE FormatVersion(IncVersion(ParseVersion(version), release))

\* comparePre: a version without prerelease is above one with; identifiers
\* compare numerically left to right, and the longer list wins a tie
RECURSIVE PreGT(_, _)
PreGT(p, q) ==
  IF p = <<>> THEN FALSE
  ELSE IF q = <<>> THEN TRUE
  ELSE IF Head(p) # Head(q) THEN Head(p) > Head(q)
  ELSE PreGT(Tail(p), Tail(q))

\* semver.gt on parsed versions
SemverGT(x, y) ==
  IF x.major # y.major THEN x.major > y.major
  ELSE IF x.minor # y.minor THEN x.minor > y.minor
  ELSE IF x.patch # y.patch THEN x.patch > y.patch
  ELSE IF x.pre = <<>> THEN y.pre # <<>>
  ELSE IF y.pre = <<>> THEN FALSE
  ELSE PreGT(x.pre, y.pre)

(* ------------------------------------------------------------------ *)
(* The repository and project the program is run on                   *)
(* ------------------------------------------------------------------ *)
\* IWorkspace objects of the project: getName(), dir, getVersion()
WsA == [name |-> <<"a">>, dir |-> <<"/", "r", "/", "a">>, version |-> <<"1", ".", "2", ".", "0">>]
WsAB == [name |-> <<"a", "b">>, dir |-> <<"/", "r", "/", "a", "b">>, version |-> <<"0", ".", "9", ".", "1">>]
WsB == [name |-> <<"b">>, dir |-> <<"/", "r", "/", "a", "/", "b">>, version |-> <<"2", ".", "0", ".", "0", "-", "1">>]

WsPool == {WsA, WsAB, WsB}

\* The lists of workspaces of at most MaxWs packages, each package once
WsSeqs == {w \in SetToSeqs(WsPool, MaxWs) : IsInjective(w)}

\* Release tags of the repository in `git tag --sort=-refname` order
TagPool == <<<<"a", "b", "-", "2", ".", "0", ".", "0">>, <<"a", "-", "1", ".", "1", ".", "0">>, <<"a", "-", "1", ".", "0", ".", "0">>>>

\* The tag listings git can print: at most MaxTags tags, newest first
TagLists ==
  {[k \in 1..Cardinality(I) |->
      TagPool[CHOOSE i \in I : Cardinality({j \in I : j < i}) = k - 1]] :
    I \in {J \in SUBSET DOMAIN TagPool : Cardinality(J) <= MaxTags}}

\* Repository-relative paths `git diff --name-only` can print
FilePool == {<<"a", "/", "x">>, <<"a", "/", "b", "/", "z">>, <<"a", "b", "/", "y">>, <<"d">>}

FileLists == {f \in SetToSeqs(FilePool, MaxFiles) : IsInjective(f)}

\* Exit codes of `git merge-base --is-ancestor`: ancestor, not an ancestor,
\* and a failure of the command
ExitCodes == {0, 1, 128}

\* A commit hash a ref resolves to
SomeRef == <<"c", "1">>

\* The hash `git log --reverse -- folder` prints first
RepoFirstCommit(folder) == <<"#">> \o folder

(* ------------------------------------------------------------------ *)
(* git.ts: parsing what git prints                                     *)
(* ------------------------------------------------------------------ *)
\* path.resolve(file) in the working directory: '' resolves to the directory
PathResolve(file) == IF file = <<>> THEN Cwd ELSE Cwd \o Sep \o file

\* getChangedFilesSinceRef, lines 40-42: the list made of git diff's output
ParseDiff(stdout, fullPath) ==
  LET files == Split(Trim(stdout), NL)
  IN IF ~fullPath THEN files
     ELSE [i \in DOMAIN files |-> PathResolve(files[i])]

\* getTags, lines 82-84: the list made of git tag's output
ParseTags(stdout) ==
  LET lines == Split(stdout, NL)
  IN [i \in DOMAIN lines |-> Trim(lines[i])]

\* isRefInHistory with every non-zero exit taken for "not an ancestor"
IsRefInHistoryLenient(code) == IF code = 0 THEN "true" ELSE "false"

\* isRefInHistory: what an exit code of the ancestry check becomes
IsRefInHistory(code) ==
  IF code = 0 THEN "true"
  ELSE IF code = 1 THEN "false"
  ELSE "error"

\* getChangedFilesSinceRef, line 31: the guard that throws
RefIsMissing(ref) == ref = Null

(* ------------------------------------------------------------------ *)
(* workspaces.ts: the pure parts                                       *)
(* ------------------------------------------------------------------ *)
\* fileNameToPackage without the path separator after the directory
FileNameToPackageNoSep(fileName, allPackages) ==
  LET hits == {i \in DOMAIN allPackages : StartsWith(fileName, allPackages[i].dir)}
  IN IF hits = {} THEN 0 ELSE CHOOSE i \in hits : \A j \in hits : i <= j

\* fileNameToPackage: the position in allPackages of the first package whose
\* directory plus separator starts the file name, 0 for undefined
FileNameToPackage(fileName, allPackages) ==
  LET hits == {i \in DOMAIN allPackages :
                 StartsWith(fileName, allPackages[i].dir \o Sep)}
  IN IF hits = {} THEN 0 ELSE CHOOSE i \in hits : \A j \in hits : i <= j

FileExistsInPackage(fileName, allPackages) ==
  FileNameToPackage(fileName, allPackages) # 0

\* Array.prototype.indexOf
FirstIndex(seq, x) == CHOOSE i \in DOMAIN seq : seq[i] = x /\ \A j \in 1..(i - 1) : seq[j] # x

\* .filter((pkg, idx, packages) => packages.indexOf(pkg) === idx)
RECURSIVE UniqueFrom(_, _)
UniqueFrom(packages, idx) ==
  IF idx > Len(packages) THEN <<>>
  ELSE (IF FirstIndex(packages, packages[idx]) = idx THEN <<packages[idx]>> ELSE <<>>)
         \o UniqueFrom(packages, idx + 1)

\* getWorkspacesChangedSinceRef, lines 72-79; a package is its position in
\* allPackages, which is what object identity distinguishes
ChangedWorkspaces(changedFiles, allPackages) ==
  LET existing == SelectSeq(changedFiles, LAMBDA f : FileExistsInPackage(f, allPackages))
      packages == [i \in DOMAIN existing |-> FileNameToPackage(existing[i], allPackages)]
  IN UniqueFrom(packages, 1)

\* lines 99-100 on a POSIX platform: the last part of the path
LastPart(change) ==
  LET parts == Split(change, "/") IN parts[Len(parts)]

\* The bucket test by directory prefix instead of containment
InBucketByPrefix(changeFilePath, workspace) ==
  StartsWith(changeFilePath, workspace.dir \o Sep)

\* lines 94-96: the changed files that belong to a workspace's bucket
InBucket(changeFilePath, workspace) == Includes(changeFilePath, workspace.dir)

\* getChangesFromLastTagByWorkspaces, lines 91-104
ChangesByWorkspace(changedFiles, allPackages) ==
  [d \in {allPackages[i].dir : i \in DOMAIN allPackages} |->
     LET workspace == allPackages[CHOOSE i \in DOMAIN allPackages :
                                           allPackages[i].dir = d]
         changes == SelectSeq(changedFiles, LAMBDA c : InBucket(c, workspace))
     IN [k \in DOMAIN changes |-> LastPart(changes[k])]]

\* getNextVersionsByWorkspaces, line 139
IsWorkspaceTag(tag, name) == StartsWith(tag, name)

WorkspaceTags(allTags, name) == SelectSeq(allTags, LAMBDA t : IsWorkspaceTag(t, name))

\* getNextVersion, line 112
FolderName(workspace) == Replace(workspace.dir, Cwd \o Sep, <<>>)

\* getNextVersion, line 121
VersionOfTag(ref, wName) == Replace(ref, wName \o <<"-">>, <<>>)

\* analyzeCommitsSinceRef: the release types it classifies commits into
AnalyzedTypes == {"major", "minor", "patch", "prerelease"}

(* ------------------------------------------------------------------ *)
(* pLocate(tags, t => isRefInHistory(t), { preserveOrder: true })      *)
(* Every check is started at once and settles in any order; the finder *)
(* examines the settled checks.                                        *)
(* ------------------------------------------------------------------ *)
NoSearch ==
  [tags |-> <<>>, checks |-> <<>>, pos |-> 0, state |-> "idle", value |-> NoValue]

StartSearch(ts) ==
  [tags |-> ts, checks |-> [i \in DOMAIN ts |-> "pending"], pos |-> 1,
   state |-> "running", value |-> NoValue]

\* One ancestry check settles with the exit code git gives for its tag.  A
\* check that settles after the search has resolved is read by nobody.
CanSettle(s, i) ==
  /\ s.state = "running"
  /\ i \in DOMAIN s.tags
  /\ s.checks[i] = "pending"

Settle(s, i, code) == [s EXCEPT !.checks[i] = IsRefInHistory(code)]

\* Without preserveOrder: the finder examines whichever check has settled
ExaminableAnyOrder(s) ==
  {i \in DOMAIN s.tags : s.checks[i] # "pending"}

\* preserveOrder: the finder examines the checks one at a time in list order
Examinable(s) ==
  {i \in DOMAIN s.tags : i = s.pos /\ s.checks[i] # "pending"}

\* The search is over the whole list without a match
Exhausted(s) == s.state = "running" /\ s.pos > Len(s.tags)

Examine(s, i) ==
  CASE s.checks[i] = "true" -> [s EXCEPT !.state = "found", !.value = s.tags[i]]
    [] s.checks[i] = "error" -> [s EXCEPT !.state = "rejected"]
    [] OTHER -> [s EXCEPT !.pos = IF i = s.pos THEN s.pos + 1 ELSE s.pos]

\* The steps the finder can take from s
FinderSteps(s) ==
  IF s.state # "running" THEN {}
  ELSE IF Exhausted(s) THEN {[s EXCEPT !.state = "none", !.value = Undefined]}
  ELSE {Examine(s, i) : i \in Examinable(s)}

(* ------------------------------------------------------------------ *)
(* State                                                               *)
(* ------------------------------------------------------------------ *)
VARIABLES
  call,         \* the exported function called and its arguments
  pc,           \* where the called function is
  tags,         \* what getTags returned
  exitCode,     \* the exit code of the ancestry check of each tag
  refArg,       \* the ref getChangedFilesSinceRef is called with
  gitCmds,      \* git commands getChangedFilesSinceRef has issued
  diffFiles,    \* the files git diff reported
  changedFiles, \* what getChangedFilesSinceRef returned
  allPackages,  \* what getWorkspaces returned
  search,       \* the tag search of getChangesFromLastTagByWorkspaces
  tasks,        \* the getNextVersion call of each input workspace
  settled,      \* the positions of the settled tasks, in settling order
  outcome,      \* "pending", "ok" or the error the call failed with
  result        \* the value the call returned

vars ==
  <<call, pc, tags, exitCode, refArg, gitCmds, diffFiles, changedFiles,
    allPackages, search, tasks, settled, outcome, result>>

NoResult == [kind |-> "none", val |-> NoValue]

Calls ==
  {[op |-> "sinceRef", ref |-> r, fullPath |-> fp, workspaces |-> <<>>] :
     r \in {Null, SomeRef}, fp \in BOOLEAN}
  \cup {[op |-> "sinceMaster", ref |-> NoValue, fullPath |-> fp, workspaces |-> <<>>] :
     fp \in BOOLEAN}
  \cup {[op |-> "changedWs", ref |-> r, fullPath |-> TRUE, workspaces |-> <<>>] :
     r \in {Null, SomeRef}}
  \cup {[op |-> "lastTag", ref |-> NoValue, fullPath |-> TRUE, workspaces |-> <<>>]}
  \cup {[op |-> "nextVersions", ref |-> NoValue, fullPath |-> FALSE, workspaces |-> w] :
     w \in WsSeqs}

FirstStep(op) ==
  CASE op = "sinceMaster" -> "getRef"
    [] op \in {"lastTag", "nextVersions"} -> "getTags"
    [] OTHER -> "enterDiff"

Init ==
  /\ call \in Calls
  /\ pc = FirstStep(call.op)
  /\ tags = <<>>
  /\ exitCode = <<>>
  /\ refArg = (IF call.op \in {"sinceRef", "changedWs"} THEN call.ref ELSE NoValue)
  /\ gitCmds = 0
  /\ diffFiles = <<>>
  /\ changedFiles = <<>>
  /\ allPackages = <<>>
  /\ search = NoSearch
  /\ tasks = <<>>
  /\ settled = <<>>
  /\ outcome = "pending"
  /\ result = NoResult

(* ------------------------------------------------------------------ *)
(* git.ts                                                              *)
(* ------------------------------------------------------------------ *)
\* getChangedFilesSinceMaster, line 46: getRef('master') gives the hash, or
\* null when rev-parse fails
GetMasterRef ==
  /\ pc = "getRef"
  /\ \E r \in {Null, SomeRef} : refArg' = r
  /\ pc' = "enterDiff"
  /\ UNCHANGED <<call, tags, exitCode, gitCmds, diffFiles, changedFiles,
                 allPackages, search, tasks, settled, outcome, result>>

\* getChangedFilesSinceRef, lines 31-33
EnterDiff ==
  /\ pc = "enterDiff"
  /\ IF RefIsMissing(refArg)
     THEN /\ outcome' = "MissingRefError"
          /\ pc' = "done"
     ELSE /\ outcome' = outcome
          /\ pc' = "mergeBase"
  /\ UNCHANGED <<call, tags, exitCode, refArg, gitCmds, diffFiles, changedFiles,
                 allPackages, search, tasks, settled, result>>

\* getChangedFilesSinceRef, lines 36-37: git merge-base ref HEAD.  With an
\* undefined ref either the spawn refuses the argument list, or git is run
\* with no such ref and fails; with a ref git answers or fails.
MergeBase ==
  /\ pc = "mergeBase"
  /\ \/ /\ refArg = Undefined
        /\ \/ /\ outcome' = "TypeError"
              /\ gitCmds' = gitCmds
           \/ /\ outcome' = "GitCommandError"
              /\ gitCmds' = gitCmds + 1
        /\ pc' = "done"
     \/ /\ refArg # Undefined
        /\ gitCmds' = gitCmds + 1
        /\ \/ /\ outcome' = outcome
              /\ pc' = "diff"
           \/ /\ outcome' = "GitCommandError"
              /\ pc' = "done"
  /\ UNCHANGED <<call, tags, exitCode, refArg, diffFiles, changedFiles,
                 allPackages, search, tasks, settled, result>>

\* getChangedFilesSinceRef, lines 39-42: git diff --name-only and the list
\* made of its output; the two callers in workspaces.ts go on to getWorkspaces
Diff ==
  /\ pc = "diff"
  /\ gitCmds' = gitCmds + 1
  /\ \/ /\ \E files \in FileLists :
             /\ diffFiles' = files
             /\ changedFiles' = ParseDiff(Join(files, NL), call.fullPath)
        /\ IF call.op \in {"sinceRef", "sinceMaster"}
           THEN /\ result' = [kind |-> "files", val |-> changedFiles']
                /\ outcome' = "ok"
                /\ pc' = "done"
           ELSE /\ result' = result
                /\ outcome' = outcome
                /\ pc' = "getWorkspaces"
     \/ /\ outcome' = "GitCommandError"
        /\ pc' = "done"
        /\ UNCHANGED <<diffFiles, changedFiles, result>>
  /\ UNCHANGED <<call, tags, exitCode, refArg, allPackages, search, tasks, settled>>

\* getTags({ isRevert: true }): the listing git prints, parsed; the empty tag
\* of an empty listing is no ref, and its ancestry check fails
GetTags ==
  /\ pc = "getTags"
  /\ \E listing \in TagLists :
       LET parsed == ParseTags(Join(listing, NL))
       IN /\ tags' = parsed
          /\ \E ec \in [Range(parsed) -> ExitCodes] :
               /\ \A t \in Range(parsed) : t = <<>> => ec[t] >= 128
               /\ exitCode' = ec
          /\ IF call.op = "lastTag"
             THEN /\ search' = StartSearch(parsed)
                  /\ pc' = "locate"
             ELSE /\ search' = search
                  /\ pc' = "dispatch"
  /\ UNCHANGED <<call, refArg, gitCmds, diffFiles, changedFiles, allPackages,
                 tasks, settled, outcome, result>>

(* ------------------------------------------------------------------ *)
(* workspaces.ts                                                       *)
(* ------------------------------------------------------------------ *)
\* getChangesFromLastTagByWorkspaces, line 88: one ancestry check settles
LocateCheck(i) ==
  /\ pc = "locate"
  /\ CanSettle(search, i)
  /\ search' = Settle(search, i, exitCode[search.tags[i]])
  /\ UNCHANGED <<call, pc, tags, exitCode, refArg, gitCmds, diffFiles,
                 changedFiles, allPackages, tasks, settled, outcome, result>>

\* getChangesFromLastTagByWorkspaces, lines 88-89: the finder takes a step;
\* when the search resolves, its value is the ref of getChangedFilesSinceRef,
\* and when it rejects, the call fails
LocateFinder ==
  /\ pc = "locate"
  /\ \E s \in FinderSteps(search) :
       /\ search' = s
       /\ CASE s.state = "running" ->
                 /\ pc' = pc
                 /\ refArg' = refArg
                 /\ outcome' = outcome
            [] s.state = "rejected" ->
                 /\ pc' = "done"
                 /\ refArg' = refArg
                 /\ outcome' = "GitCommandError"
            [] OTHER ->
                 /\ pc' = "enterDiff"
                 /\ refArg' = s.value
                 /\ outcome' = outcome
  /\ UNCHANGED <<call, tags, exitCode, gitCmds, diffFiles, changedFiles,
                 allPackages, tasks, settled, result>>

\* getWorkspacesChangedSinceRef, lines 70-79, and
\* getChangesFromLastTagByWorkspaces, lines 90-104: the packages are read
\* and the result is computed
GetWorkspaces ==
  /\ pc = "getWorkspaces"
  /\ \E pkgs \in WsSeqs :
       /\ allPackages' = pkgs
       /\ result' =
            IF call.op = "changedWs"
            THEN [kind |-> "workspaces", val |-> ChangedWorkspaces(changedFiles, pkgs)]
            ELSE [kind |-> "changes", val |-> ChangesByWorkspace(changedFiles, pkgs)]
  /\ outcome' = "ok"
  /\ pc' = "done"
  /\ UNCHANGED <<call, tags, exitCode, refArg, gitCmds, diffFiles, changedFiles,
                 search, tasks, settled>>

\* getNextVersion up to its first await, lines 111-120
StartTask(workspaceTags) ==
  [pc |-> IF Len(workspaceTags) = 0 THEN "firstCommit" ELSE "locate",
   search |-> IF Len(workspaceTags) = 0 THEN NoSearch ELSE StartSearch(workspaceTags),
   ref |-> <<>>,
   currentVersion |-> Undefined,
   entry |-> {},
   error |-> "none"]

\* The values collected in the order the tasks settled
JoinResultsBySettling(ts, order) == [k \in DOMAIN order |-> ts[order[k]].entry]

\* Promise.all(promises): the value it fulfils with
JoinResults(ts, order) == [i \in DOMAIN ts |-> ts[i].entry]

\* Promise.all(promises): rejected by the first task that fails, fulfilled
\* when every task is done
Joined(ts, order) ==
  IF pc # "join" THEN <<pc, outcome, result>>
  ELSE IF \E i \in DOMAIN ts : ts[i].pc = "failed"
  THEN <<"done", ts[CHOOSE i \in DOMAIN ts : ts[i].pc = "failed"].error, NoResult>>
  ELSE IF \A i \in DOMAIN ts : ts[i].pc = "done"
  THEN <<"done", "ok", [kind |-> "versions", val |-> JoinResults(ts, order)]>>
  ELSE <<pc, outcome, result>>

\* getNextVersionsByWorkspaces, lines 137-143: every getNextVersion is called,
\* each running to its first await, and then Promise.all waits
Dispatch ==
  /\ pc = "dispatch"
  /\ tasks' = [i \in DOMAIN call.workspaces |->
                 StartTask(WorkspaceTags(tags, call.workspaces[i].name))]
  /\ IF call.workspaces = <<>>
     THEN /\ pc' = "done"
          /\ outcome' = "ok"
          /\ result' = [kind |-> "versions", val |-> <<>>]
     ELSE /\ pc' = "join"
          /\ outcome' = outcome
          /\ result' = result
  /\ UNCHANGED <<call, tags, exitCode, refArg, gitCmds, diffFiles, changedFiles,
                 allPackages, search, settled>>

\* A task moves to t; a task that is done or has failed settles its promise
TaskMoves(i, t) ==
  LET ts == [tasks EXCEPT ![i] = t]
      order == IF t.pc \in {"done", "failed"} THEN Append(settled, i) ELSE settled
      joined == Joined(ts, order)
  IN /\ tasks' = ts
     /\ settled' = order
     /\ pc' = joined[1]
     /\ outcome' = joined[2]
     /\ result' = joined[3]
     /\ UNCHANGED <<call, tags, exitCode, refArg, gitCmds, diffFiles, changedFiles,
                    allPackages, search>>

\* getNextVersion, lines 117-118: no tag, so the first commit of the folder
\* and the version of the package; the task fails when git log fails
TaskFirstCommit(i) ==
  /\ i \in DOMAIN tasks
  /\ tasks[i].pc = "firstCommit"
  /\ \/ TaskMoves(i, [tasks[i] EXCEPT
                        !.ref = RepoFirstCommit(FolderName(call.workspaces[i])),
                        !.currentVersion = call.workspaces[i].version,
                        !.pc = "analyze"])
     \/ TaskMoves(i, [tasks[i] EXCEPT !.pc = "failed", !.error = "GitCommandError"])

\* getNextVersion, line 120: one ancestry check settles
TaskCheck(i, k) ==
  /\ i \in DOMAIN tasks
  /\ tasks[i].pc = "locate"
  /\ CanSettle(tasks[i].search, k)
  /\ TaskMoves(i, [tasks[i] EXCEPT
                     !.search = Settle(@, k, exitCode[tasks[i].search.tags[k]])])

\* getNextVersion, lines 120-121: the finder takes a step; the search's value
\* becomes ref, and ref.replace throws when it is undefined
TaskFinder(i) ==
  /\ i \in DOMAIN tasks
  /\ tasks[i].pc = "locate"
  /\ \E s \in FinderSteps(tasks[i].search) :
       TaskMoves(i,
         CASE s.state = "running" -> [tasks[i] EXCEPT !.search = s]
           [] s.state = "rejected" ->
                [tasks[i] EXCEPT !.search = s, !.pc = "failed",
                                 !.error = "GitCommandError"]
           [] s.state = "none" ->
                [tasks[i] EXCEPT !.search = s, !.ref = s.value, !.pc = "failed",
                                 !.error = "TypeError"]
           [] OTHER ->
                [tasks[i] EXCEPT !.search = s, !.ref = s.value,
                   !.currentVersion = VersionOfTag(s.value, call.workspaces[i].name),
                   !.pc = "analyze"])

\* getNextVersion, lines 124-129: the release type of the commits since ref,
\* the incremented version, and the mapping returned
TaskAnalyze(i) ==
  /\ i \in DOMAIN tasks
  /\ tasks[i].pc = "analyze"
  /\ \E releaseType \in AnalyzedTypes :
       TaskMoves(i, [tasks[i] EXCEPT
                       !.entry = {<<call.workspaces[i].name,
                                    SemverInc(tasks[i].currentVersion, releaseType)>>},
                       !.pc = "done"])

Next ==
  \/ GetMasterRef
  \/ EnterDiff
  \/ MergeBase
  \/ Diff
  \/ GetTags
  \/ \E i \in DOMAIN TagPool : LocateCheck(i)
  \/ LocateFinder
  \/ GetWorkspaces
  \/ Dispatch
  \/ \E i \in 1..Len(tasks) : TaskFirstCommit(i)
  \/ \E i \in 1..Len(tasks), k \in DOMAIN TagPool : TaskCheck(i, k)
  \/ \E i \in 1..Len(tasks) : TaskFinder(i)
  \/ \E i \in 1..Len(tasks) : TaskAnalyze(i)

Spec == Init /\ [][Next]_vars

(* ------------------------------------------------------------------ *)
(* Properties                                                          *)
(* ------------------------------------------------------------------ *)
\* d followed by the separator is a prefix of f, character by character
OwnsFile(d, f) ==
  /\ Len(f) > Len(d)
  /\ \A k \in 1..Len(d) : f[k] = d[k]
  /\ f[Len(d) + 1] = "/"

\* The owner of a file: the first workspace that owns it, 0 for none
OwnerOf(f, pkgs) ==
  IF \E i \in DOMAIN pkgs : OwnsFile(pkgs[i].dir, f)
  THEN CHOOSE i \in DOMAIN pkgs :
         OwnsFile(pkgs[i].dir, f) /\ \A j \in 1..(i - 1) : ~OwnsFile(pkgs[j].dir, f)
  ELSE 0

\* The owners of the files in first-seen order, none of them twice
RECURSIVE Owners(_, _, _)
Owners(files, pkgs, seen) ==
  IF files = <<>> THEN <<>>
  ELSE LET o == OwnerOf(Head(files), pkgs)
       IN IF o = 0 \/ o \in seen THEN Owners(Tail(files), pkgs, seen)
          ELSE <<o>> \o Owners(Tail(files), pkgs, seen \cup {o})

\* C1: getWorkspacesChangedSinceRef returns exactly the owning workspaces of
\* the changed files (owner: the first workspace whose directory plus
\* separator is a prefix of the file): files without owner contribute
\* nothing, no workspace appears twice, and the workspaces are in the order
\* in which their first owned file occurs.
ThmC1 ==
  (call.op = "changedWs" /\ outcome = "ok") =>
    /\ result.kind = "workspaces"
    /\ result.val = Owners(changedFiles, allPackages, {})
    /\ IsInjective(result.val)
    /\ \A k \in DOMAIN result.val : result.val[k] \in DOMAIN allPackages

\* The scenario [/r/a/x, /r/ab/y, /r/d] with workspaces [a, ab] gives [a, ab]
WitC1 ==
  /\ call.op = "changedWs"
  /\ outcome = "ok"
  /\ allPackages = <<WsA, WsAB>>
  /\ changedFiles = <<<<"/", "r", "/", "a", "/", "x">>, <<"/", "r", "/", "a", "b", "/", "y">>, <<"/", "r", "/", "d">>>>
  /\ result.val = <<1, 2>>

\* The searches in progress or over: the one of
\* getChangesFromLastTagByWorkspaces and the one of every getNextVersion
Searches ==
  (IF search.state # "idle" THEN {search} ELSE {})
    \cup {tasks[i].search : i \in {j \in DOMAIN tasks : tasks[j].search.state # "idle"}}

\* The first tag of the list that is an ancestor of head
IsFirstAncestor(ts, k) ==
  /\ k \in DOMAIN ts
  /\ exitCode[ts[k]] = 0
  /\ \A j \in 1..(k - 1) : exitCode[ts[j]] # 0

\* C3: the tag search selects the first tag, in the newest-first order of the
\* list, that is an ancestor of head, in whatever order the ancestry checks
\* complete; the selected tag is the ref the caller goes on with.
ThmC3 ==
  /\ \A s \in Searches :
       s.state = "found" =>
         \E k \in DOMAIN s.tags : IsFirstAncestor(s.tags, k) /\ s.value = s.tags[k]
  /\ (call.op = "lastTag" /\ search.state = "found") => refArg = search.value
  /\ \A i \in DOMAIN tasks :
       tasks[i].search.state = "found" => tasks[i].ref = tasks[i].search.value

\* A later ancestor's check completed, as true, before the search selected the
\* first tag
WitC3 ==
  \E s \in Searches :
    /\ s.state = "found"
    /\ Len(s.tags) >= 2
    /\ s.value = s.tags[1]
    /\ s.checks[2] = "true"

\* C7: isRefInHistory gives true for exit code 0, false exactly for exit code
\* 1, and an error for every other exit code; a search that meets such an
\* error on a tag before the first ancestor fails, and its caller with it,
\* instead of skipping the tag.
ThmC7 ==
  /\ \A s \in Searches : \A i \in DOMAIN s.tags :
       s.checks[i] # "pending" =>
         /\ s.checks[i] = "true" <=> exitCode[s.tags[i]] = 0
         /\ s.checks[i] = "false" <=> exitCode[s.tags[i]] = 1
         /\ s.checks[i] = "error" <=> exitCode[s.tags[i]] \notin {0, 1}
  /\ \A s \in Searches :
       /\ s.state = "found" =>
            \A j \in DOMAIN s.tags :
              (\A m \in 1..j : s.tags[m] # s.value) => exitCode[s.tags[j]] = 1
       /\ s.state = "none" => \A j \in DOMAIN s.tags : exitCode[s.tags[j]] = 1
       /\ s.state = "rejected" => exitCode[s.tags[s.pos]] \notin {0, 1}
  /\ (call.op = "lastTag" /\ search.state = "rejected") =>
       (outcome = "GitCommandError" /\ result = NoResult)
  /\ \A i \in DOMAIN tasks :
       tasks[i].search.state = "rejected" =>
         (tasks[i].pc = "failed" /\ tasks[i].error = "GitCommandError")

\* A search failed on a tag whose check exited with 128, although a later tag
\* is an ancestor
WitC7 ==
  \E s \in Searches :
    /\ s.state = "rejected"
    /\ exitCode[s.tags[s.pos]] = 128
    /\ \E j \in DOMAIN s.tags : j > s.pos /\ exitCode[s.tags[j]] = 0

\* C5: getNextVersionsByWorkspaces starts the computation of every input
\* workspace before it waits; when all succeed it returns one single-entry
\* mapping per input workspace, in input order, whatever order the
\* computations completed in; when one fails, the call fails and returns
\* nothing.
ThmC5 ==
  call.op = "nextVersions" =>
    /\ pc \in {"join", "done"} => Len(tasks) = Len(call.workspaces)
    /\ outcome = "ok" =>
         /\ result.kind = "versions"
         /\ Len(result.val) = Len(call.workspaces)
         /\ \A i \in DOMAIN call.workspaces :
              /\ tasks[i].pc = "done"
              /\ Cardinality(result.val[i]) = 1
              /\ \A e \in result.val[i] : e[1] = call.workspaces[i].name
              /\ result.val[i] = tasks[i].entry
    /\ (\E i \in DOMAIN tasks : tasks[i].pc = "failed") =>
         (outcome \notin {"ok", "pending"} /\ result = NoResult)
    /\ outcome \notin {"ok", "pending"} =>
         (result = NoResult /\ \E i \in DOMAIN tasks : tasks[i].pc = "failed")

\* Two workspaces whose computations completed in the reverse of input order
WitC5 ==
  /\ call.op = "nextVersions"
  /\ outcome = "ok"
  /\ Len(call.workspaces) = 2
  /\ settled = <<2, 1>>
  /\ result.val[1] # result.val[2]

\* d occurs somewhere in f
Contains(f, d) ==
  \E o \in 0..(Len(f) - Len(d)) : \A k \in 1..Len(d) : f[o + k] = d[k]

\* The text of f after its last separator
Basename(f) ==
  LET seps == {k \in DOMAIN f : f[k] = "/"}
      last == IF seps = {} THEN 0 ELSE CHOOSE k \in seps : \A j \in seps : j <= k
  IN [k \in 1..(Len(f) - last) |-> f[last + k]]

\* The base names of the files that contain d, in file order
RECURSIVE Bucket(_, _)
Bucket(files, d) ==
  IF files = <<>> THEN <<>>
  ELSE (IF Contains(Head(files), d) THEN <<Basename(Head(files))>> ELSE <<>>)
         \o Bucket(Tail(files), d)

\* C8: on success the result of getChangesFromLastTagByWorkspaces has exactly
\* one key per known workspace, its directory; the value is the sequence of
\* base names of the changed files whose path contains that directory, in
\* changed-file order, and it is the empty list for a workspace without one.
ThmC8 ==
  (call.op = "lastTag" /\ outcome = "ok") =>
    /\ result.kind = "changes"
    /\ DOMAIN result.val = {allPackages[i].dir : i \in DOMAIN allPackages}
    /\ \A i \in DOMAIN allPackages :
         result.val[allPackages[i].dir] = Bucket(changedFiles, allPackages[i].dir)

\* A workspace with an empty list beside one whose list holds a file of
\* another directory that contains its own
WitC8 ==
  /\ call.op = "lastTag"
  /\ outcome = "ok"
  /\ allPackages = <<WsA, WsB>>
  /\ changedFiles = <<<<"/", "r", "/", "a", "b", "/", "y">>>>
  /\ result.val[WsA.dir] = <<<<"y">>>>
  /\ result.val[WsB.dir] = <<>>

\* A release tag of the workspace: its name, "-", and a version
IsOwnTag(t, w) ==
  /\ Len(t) > Len(w.name) + 1
  /\ SubSeq(t, 1, Len(w.name)) = w.name
  /\ t[Len(w.name) + 1] = "-"
  /\ IsVersion(SubSeq(t, Len(w.name) + 2, Len(t)))

HasOwnTag(w) == \E k \in DOMAIN tags : IsOwnTag(tags[k], w)

\* The task has its reference and current version
HasReference(t) == t.pc \in {"analyze", "done"}

\* C2: a workspace without a release tag of its own, whatever tags other
\* workspaces have, gets its first commit as the reference and the version
\* of its metadata as the current version.
CexC2 ==
  \A i \in DOMAIN tasks :
    ~HasOwnTag(call.workspaces[i]) =>
      /\ tasks[i].search.state = "idle"
      /\ HasReference(tasks[i]) =>
           /\ tasks[i].ref = RepoFirstCommit(FolderName(call.workspaces[i]))
           /\ tasks[i].currentVersion = call.workspaces[i].version

\* C9: for a workspace named n with a prior tag, the reference is a tag
\* n-<version> of that workspace, and the current version is that tag
\* without the leading "n-".
CexC9 ==
  \A i \in DOMAIN tasks :
    (HasOwnTag(call.workspaces[i]) /\ HasReference(tasks[i])) =>
      /\ IsOwnTag(tasks[i].ref, call.workspaces[i])
      /\ tasks[i].currentVersion =
           SubSeq(tasks[i].ref, Len(call.workspaces[i].name) + 2, Len(tasks[i].ref))

\* C4: every entry of a Workspace Version Plan maps the workspace's name to a
\* version that is a semantic-version increment of the workspace's current
\* version, never to null or a text that is no version.
CexC4 ==
  \A i \in DOMAIN tasks :
    tasks[i].pc = "done" =>
      \A e \in tasks[i].entry :
        /\ e[1] = call.workspaces[i].name
        /\ e[2] # Null
        /\ IsVersion(e[2])
        /\ IsVersion(tasks[i].currentVersion)
        /\ SemverGT(ParseVersion(e[2]), ParseVersion(tasks[i].currentVersion))

\* getChangedFilesSinceRef has been entered and is past its guard
PastGuard == pc \in {"mergeBase", "diff", "getWorkspaces", "done"}

\* C6: a diff requested against a null or unresolved ref fails with
\* MissingRefError before any git command is issued.
CexC6 ==
  (refArg \in {Null, Undefined} /\ PastGuard) =>
    (outcome = "MissingRefError" /\ gitCmds = 0)

\* C10: for a ref that is not null, getChangedFilesSinceRef returns exactly
\* one entry per file git reports as differing, and the empty list when git
\* reports none, in both path modes.
CexC10 ==
  (call.op \in {"sinceRef", "sinceMaster"} /\ outcome = "ok") =>
    /\ Len(result.val) = Len(diffFiles)
    /\ \A k \in DOMAIN diffFiles :
         result.val[k] = IF call.fullPath THEN Cwd \o Sep \o diffFiles[k]
                         ELSE diffFiles[k]

====
